---- MODULE Spec2Model ----
(***************************************************************************)
(* A model of cloud/asyncbotocore: the asynchronous base client            *)
(* (client.py) and its connector configuration (config.py).                *)
(*                                                                         *)
(* Spec        the execution engine: AsyncBaseClient._make_api_call run by *)
(*             several calls in flight on one client.                      *)
(* SpecConfig  AsyncConfig(connector_args, **kwargs): validation of the    *)
(*             connector arguments and the keep-alive default.             *)
(* SpecMerge   AsyncConfig.merge of two configs.                           *)
(* SpecFactory AsyncClientCreator._get_client_args.                        *)
(* SpecPaginator  AsyncBaseClient.get_paginator run by several callers,    *)
(*             and the iteration of a paginator it returned.               *)
(***************************************************************************)
EXTENDS Integers, Sequences, FiniteSets, TLC

(***************************************************************************)
(* Bounds of the model.                                                    *)
(***************************************************************************)
\* Number of API calls made on the one client.
NumCalls == 2

Calls == 1..NumCalls

\* Largest number of entries of a connector_args mapping given to AsyncConfig.
MaxConnectorArgs == 2

\* Number of get_paginator calls, made by any clients of the process.
NumPaginatorCalls == 2

PaginatorCalls == 1..NumPaginatorCalls

\* Largest number of pages the server holds for a paginated operation.
MaxPages == 3

(***************************************************************************)
(* The inputs of a call and the answers of the collaborators.              *)
(***************************************************************************)
\* Operations the service description declares.
Operations == {"ListBuckets", "GetObject"}
\* Operation names a caller may pass; "NoSuchOp" is not in the description.
OperationNames == Operations \cup {"NoSuchOp"}
\* API parameters, by whether the serializer's validation accepts them.
ApiParams == {"valid", "invalid"}
\* HTTP status codes the endpoint may answer with.
StatusCodes == {200, 299, 300, 500}
\* Parsed response bodies.
ParsedBodies == {"body1", "body2"}
\* Transport-level faults make_request may raise.
TransportFaults == {"ConnectionError", "TimeoutError"}

\* Python's None, and the mark of a variable nothing was stored in yet.
None == [kind |-> "None", type |-> "NoneType"]
Unset == [kind |-> "Unset"]

VARIABLES
    pc,        \* pc[c]: "idle", "awaiting" (suspended at the await), "done"
    req,       \* req[c]: the arguments of the call, None before it is made
    resp,      \* resp[c]: what the await of make_request produced, or None
    outcome,   \* outcome[c]: what the caller of _make_api_call observes
    events,    \* the hooks emitted, the endpoint invocations and the exits
    given,     \* the arguments AsyncConfig was called with, Unset before
    config,    \* the AsyncConfig object constructed, None if there is none
    raised,    \* the exception AsyncConfig raised, None if it did not
    first,     \* merge: the config merge is called on, with its arguments
    second,    \* merge: the config passed to merge, with its arguments
    merged,    \* merge: the config merge returned, None before
    factoryGiven,  \* the arguments of _get_client_args, Unset before
    clientArgs,    \* what _get_client_args returned, None before
    pageIteratorCls,  \* Paginator.PAGE_ITERATOR_CLS, one per process
    pgpc,      \* pgpc[p]: position of get_paginator call p
    pgop,      \* pgop[p]: the operation_name call p was given, None before
    pgresult,  \* pgresult[p]: the paginator returned or the exception
    iter,      \* the page iterator of the paginator iterated, None before
    engineCalls,   \* the tokens given to the calls the iterator made
    pagesYielded,  \* the pages the iterator yielded
    sessionOpen,   \* whether the transport session of the client is open
    lifecycle,     \* the last of __aenter__, __aexit__, close that returned
                   \* or raised, and its result
    scoped,        \* scoped[t]: where task t is in __aenter__ or __aexit__
    classHooks,    \* the 'creating-client-class' emissions, in order
    clientClass,   \* clientClass[k]: the type creation k returned, or None
    instances      \* instances[k]: whether that type has been instantiated

callVars == <<pc, req, resp, outcome, events>>
configVars == <<given, config, raised>>
mergeVars == <<first, second, merged>>
factoryVars == <<factoryGiven, clientArgs>>
paginatorVars ==
    <<pageIteratorCls, pgpc, pgop, pgresult, iter, engineCalls, pagesYielded>>
sessionVars == <<sessionOpen, lifecycle, scoped>>
classVars == <<classHooks, clientClass, instances>>
\* What the actions of each part leave alone.
notCallOrSessionVars ==
    <<configVars, mergeVars, factoryVars, paginatorVars, classVars>>
notCallVars == <<notCallOrSessionVars, sessionVars>>
notConfigVars ==
    <<callVars, mergeVars, factoryVars, paginatorVars, sessionVars,
      classVars>>
notMergeVars ==
    <<callVars, configVars, factoryVars, paginatorVars, sessionVars,
      classVars>>
notFactoryVars ==
    <<callVars, configVars, mergeVars, paginatorVars, sessionVars,
      classVars>>
notPaginatorVars ==
    <<callVars, configVars, mergeVars, factoryVars, sessionVars, classVars>>
notSessionVars ==
    <<callVars, configVars, mergeVars, factoryVars, paginatorVars,
      classVars>>
notClassVars ==
    <<callVars, configVars, mergeVars, factoryVars, paginatorVars,
      sessionVars>>
vars ==
    <<callVars, configVars, mergeVars, factoryVars, paginatorVars,
      sessionVars, classVars>>

(***************************************************************************)
(* AsyncBaseClient._make_api_call                                          *)
(***************************************************************************)
\* self._service_model.operation_model(operation_name)
OperationModel(operation_name) ==
    IF operation_name \in Operations
    THEN [ok |-> TRUE, name |-> operation_name]
    ELSE [ok |-> FALSE,
          exc |-> [type |-> "OperationNotFoundError", name |-> operation_name]]

\* self._convert_to_request_dict(api_params, operation_model, context=...)
ConvertToRequestDict(api_params, operation_model) ==
    IF api_params = "valid"
    THEN [ok |-> TRUE, request |-> [op |-> operation_model.name]]
    ELSE [ok |-> FALSE, exc |-> [type |-> "ParamValidationError"]]

\* One entry of the trace of the client: a hook emitted on self.meta.events,
\* an invocation of self._endpoint.make_request, or the exit of a call. The
\* observers registered on the emitter return normally.
Event(c, kind) == [call |-> c, kind |-> kind]

\* An exception leaving _make_api_call: nothing in the coroutine catches it.
Raise(c, exc) ==
    /\ outcome' = [outcome EXCEPT ![c] = [kind |-> "raise", exc |-> exc]]
    /\ events' = Append(events, Event(c, "raise"))
    /\ pc' = [pc EXCEPT ![c] = "done"]

\* The hook emitted and the request handed to the endpoint once resolve and
\* serialize succeeded: everything up to the suspension.
EmitBeforeCallAndDispatch(c) ==
    <<Event(c, "before-call"), Event(c, "make_request")>>

\* Mutant of MakeApiCall: the before-call hook is emitted before the request
\* is serialized, so a serialization failure comes after the hook.
MakeApiCallHookBeforeSerialize(c, operation_name, api_params) ==
    /\ pc[c] = "idle"
    /\ req' = [req EXCEPT ![c] =
                  [operation_name |-> operation_name, api_params |-> api_params]]
    /\ LET om == OperationModel(operation_name) IN
       IF ~om.ok
       THEN Raise(c, om.exc) /\ UNCHANGED resp
       ELSE LET rd == ConvertToRequestDict(api_params, om) IN
            IF ~rd.ok
            THEN /\ outcome' = [outcome EXCEPT ![c] =
                                    [kind |-> "raise", exc |-> rd.exc]]
                 /\ events' = events \o
                        <<Event(c, "before-call"), Event(c, "raise")>>
                 /\ pc' = [pc EXCEPT ![c] = "done"]
                 /\ UNCHANGED resp
            ELSE /\ events' = events \o EmitBeforeCallAndDispatch(c)
                 /\ pc' = [pc EXCEPT ![c] = "awaiting"]
                 /\ UNCHANGED <<resp, outcome>>
    /\ UNCHANGED notCallVars

\* Mutant of MakeApiCall: the before-call emit is awaited, so the call
\* suspends between the hook and the dispatch.
MakeApiCallSuspendsAfterHook(c, operation_name, api_params) ==
    \/ /\ pc[c] = "idle"
       /\ req' = [req EXCEPT ![c] =
                  [operation_name |-> operation_name, api_params |-> api_params]]
       /\ LET om == OperationModel(operation_name) IN
          IF ~om.ok
          THEN Raise(c, om.exc) /\ UNCHANGED resp
          ELSE LET rd == ConvertToRequestDict(api_params, om) IN
               IF ~rd.ok
               THEN Raise(c, rd.exc) /\ UNCHANGED resp
               ELSE /\ events' = Append(events, Event(c, "before-call"))
                    /\ pc' = [pc EXCEPT ![c] = "hooked"]
                    /\ UNCHANGED <<resp, outcome>>
       /\ UNCHANGED notCallVars
    \/ /\ pc[c] = "hooked"
       /\ req[c].operation_name = operation_name
       /\ req[c].api_params = api_params
       /\ events' = Append(events, Event(c, "make_request"))
       /\ pc' = [pc EXCEPT ![c] = "awaiting"]
       /\ UNCHANGED <<req, resp, outcome, notCallVars>>

\* The call from its entry up to the await of make_request.
MakeApiCall(c, operation_name, api_params) ==
    /\ pc[c] = "idle"
    /\ req' = [req EXCEPT ![c] =
                  [operation_name |-> operation_name, api_params |-> api_params]]
    /\ LET om == OperationModel(operation_name) IN
       IF ~om.ok
       THEN Raise(c, om.exc) /\ UNCHANGED resp
       ELSE LET rd == ConvertToRequestDict(api_params, om) IN
            IF ~rd.ok
            THEN Raise(c, rd.exc) /\ UNCHANGED resp
            ELSE /\ events' = events \o EmitBeforeCallAndDispatch(c)
                 /\ pc' = [pc EXCEPT ![c] = "awaiting"]
                 /\ UNCHANGED <<resp, outcome>>
    /\ UNCHANGED notCallVars

\* Mutant of Classify: the boundary status 300 counts as a success.
ClassifyAbove300(status_code, parsed_response, operation_name) ==
    IF status_code > 300
    THEN [kind |-> "raise",
          exc |-> [type |-> "ClientError", response |-> parsed_response,
                   operation_name |-> operation_name]]
    ELSE [kind |-> "return", value |-> parsed_response]

\* if http.status_code >= 300: raise ClientError(...) else: return parsed
Classify(status_code, parsed_response, operation_name) ==
    IF status_code >= 300
    THEN [kind |-> "raise",
          exc |-> [type |-> "ClientError", response |-> parsed_response,
                   operation_name |-> operation_name]]
    ELSE [kind |-> "return", value |-> parsed_response]

\* Mutant of EmitAfterCallAndExit: the after-call hook is skipped when the
\* response is an error status.
EmitAfterCallOnSuccessOnly(c, status_code, result) ==
    IF status_code >= 300
    THEN <<Event(c, result.kind)>>
    ELSE <<Event(c, "after-call"), Event(c, result.kind)>>

\* What is emitted and how the call exits once make_request has answered.
EmitAfterCallAndExit(c, status_code, result) ==
    <<Event(c, "after-call"), Event(c, result.kind)>>

\* make_request answers with (http, parsed_response): the call resumes.
DispatchReturns(c, status_code, parsed_response) ==
    /\ pc[c] = "awaiting"
    /\ resp' = [resp EXCEPT ![c] = [kind |-> "response",
                    status_code |-> status_code, parsed |-> parsed_response]]
    /\ LET result == Classify(status_code, parsed_response,
                              req[c].operation_name) IN
       /\ events' = events \o EmitAfterCallAndExit(c, status_code, result)
       /\ outcome' = [outcome EXCEPT ![c] = result]
    /\ pc' = [pc EXCEPT ![c] = "done"]
    /\ UNCHANGED <<req, notCallVars>>

\* Mutant of AwaitRaises: the exception is caught and converted to a
\* ClientError.
AwaitRaisesWrapped(c, exc) ==
    Raise(c, [type |-> "ClientError", response |-> exc,
              operation_name |-> req[c].operation_name])

\* Mutant of AwaitRaises: the after-call hook sits in a finally clause.
AwaitRaisesAfterHookInFinally(c, exc) ==
    /\ outcome' = [outcome EXCEPT ![c] = [kind |-> "raise", exc |-> exc]]
    /\ events' = events \o <<Event(c, "after-call"), Event(c, "raise")>>
    /\ pc' = [pc EXCEPT ![c] = "done"]

\* An exception thrown into the coroutine at the await: it is not caught.
AwaitRaises(c, exc) ==
    Raise(c, exc)

\* Mutant of DispatchFails: a transport fault makes the call close the
\* session.
DispatchFailsClosesSession(c, fault) ==
    /\ pc[c] = "awaiting"
    /\ resp' = [resp EXCEPT ![c] = [kind |-> "fault", fault |-> fault]]
    /\ AwaitRaises(c, [type |-> fault])
    /\ sessionOpen' = FALSE
    /\ UNCHANGED <<req, lifecycle, scoped, notCallOrSessionVars>>

\* make_request fails with a transport-level fault.
DispatchFails(c, fault) ==
    /\ pc[c] = "awaiting"
    /\ resp' = [resp EXCEPT ![c] = [kind |-> "fault", fault |-> fault]]
    /\ AwaitRaises(c, [type |-> fault])
    /\ UNCHANGED <<req, notCallVars>>

\* The task running the call is cancelled while suspended at the await.
Cancel(c) ==
    /\ pc[c] = "awaiting"
    /\ resp' = [resp EXCEPT ![c] = [kind |-> "cancelled"]]
    /\ AwaitRaises(c, [type |-> "CancelledError"])
    /\ UNCHANGED <<req, notCallVars>>

(***************************************************************************)
(* The scoped lifecycle: __aenter__, __aexit__ and close hand over to the  *)
(* transport session behind self._endpoint.http_session.  __aenter__ and   *)
(* __aexit__ are coroutines that await the session: between the call of    *)
(* the session and their return the event loop may run anything else of    *)
(* the client.  close is a plain method.  The session is not part of       *)
(* client.py; what its three operations do is taken from the description   *)
(* of the scoped lifecycle.                                                *)
(***************************************************************************)
NumSessionCalls == 1
SessionCalls == 1..NumSessionCalls
\* The tasks that enter and exit the client.
LifecycleTasks == {"A", "B"}

\* What a session operation leaves behind: the session's state and the
\* exception it raised, None if it raised nothing.  fails: the session's
\* operation raises instead of doing its work.
SessionFault == [type |-> "RuntimeError"]
SessionAenter(open, fails) ==
    IF fails THEN [open |-> open, raised |-> SessionFault]
    ELSE [open |-> TRUE, raised |-> None]
SessionAexit(open, fails) ==
    IF fails THEN [open |-> open, raised |-> SessionFault]
    ELSE [open |-> FALSE, raised |-> None]
SessionClose(open) == [open |-> FALSE, raised |-> None]

\* What the await of line 181 or 185 can end with instead of a result: the
\* task is cancelled while suspended, or the session's coroutine raises
\* after it suspended.
AwaitExceptions == {[type |-> "CancelledError"], SessionFault}

\* A task outside __aenter__ and __aexit__.
Idle == [pc |-> "idle", disturbed |-> FALSE]

\* The tasks suspended in __aenter__ or __aexit__ other than t learn that
\* the session was acted on while they were suspended.
Disturb(t) ==
    [u \in LifecycleTasks |->
        IF u # t /\ scoped[u].pc # "idle"
        THEN [scoped[u] EXCEPT !.disturbed = TRUE]
        ELSE scoped[u]]

\* __aenter__ or __aexit__ left: by a return (r.raised = None) or by the
\* exception of the session, which nothing catches.
Lifecycle(op, r) ==
    [op |-> op, entered |-> lifecycle.entered \/ op = "enter",
     raised |-> r.raised]

\* __aenter__ up to its await: self.http_session.__aenter__() is called and
\* either raises, which ends __aenter__, or acts and suspends.
ClientEnterCall(t, fails) ==
    /\ scoped[t].pc = "idle"
    /\ LET r == SessionAenter(sessionOpen, fails) IN
       /\ sessionOpen' = r.open
       /\ IF r.raised # None
          THEN /\ lifecycle' = Lifecycle("enter", r)
               /\ UNCHANGED scoped
          ELSE /\ scoped' = [Disturb(t) EXCEPT ![t] =
                                [pc |-> "entering", disturbed |-> FALSE]]
               /\ UNCHANGED lifecycle
    /\ UNCHANGED notSessionVars

\* The await of __aenter__ is over: return self.
ClientEnterReturn(t) ==
    /\ scoped[t].pc = "entering"
    /\ scoped' = [scoped EXCEPT ![t] = Idle]
    /\ lifecycle' = Lifecycle("enter", [raised |-> None])
    /\ UNCHANGED <<sessionOpen, notSessionVars>>

\* The await of __aenter__ ends with an exception: nothing catches it, it
\* leaves __aenter__.
ClientEnterRaises(t, exc) ==
    /\ scoped[t].pc = "entering"
    /\ scoped' = [scoped EXCEPT ![t] = Idle]
    /\ lifecycle' = Lifecycle("enter", [raised |-> exc])
    /\ UNCHANGED <<sessionOpen, notSessionVars>>

\* __aexit__ up to its await: self.http_session.__aexit__(...) is called and
\* either raises, which ends __aexit__, or acts and suspends.
ClientExitCall(t, fails) ==
    /\ scoped[t].pc = "idle"
    /\ LET r == SessionAexit(sessionOpen, fails) IN
       /\ sessionOpen' = r.open
       /\ IF r.raised # None
          THEN /\ lifecycle' = Lifecycle("exit", r)
               /\ UNCHANGED scoped
          ELSE /\ scoped' = [Disturb(t) EXCEPT ![t] =
                                [pc |-> "exiting", disturbed |-> FALSE]]
               /\ UNCHANGED lifecycle
    /\ UNCHANGED notSessionVars

\* The await of __aexit__ is over: __aexit__ returns.
ClientExitReturn(t) ==
    /\ scoped[t].pc = "exiting"
    /\ scoped' = [scoped EXCEPT ![t] = Idle]
    /\ lifecycle' = Lifecycle("exit", [raised |-> None])
    /\ UNCHANGED <<sessionOpen, notSessionVars>>

\* The await of __aexit__ ends with an exception: nothing catches it, it
\* leaves __aexit__.
ClientExitRaises(t, exc) ==
    /\ scoped[t].pc = "exiting"
    /\ scoped' = [scoped EXCEPT ![t] = Idle]
    /\ lifecycle' = Lifecycle("exit", [raised |-> exc])
    /\ UNCHANGED <<sessionOpen, notSessionVars>>

\* Mutant of ClientClose: close returns without calling the session.
ClientCloseWithoutSession ==
    /\ lifecycle' = [op |-> "close", was_open |-> sessionOpen,
                     entered |-> lifecycle.entered, raised |-> None]
    /\ UNCHANGED <<sessionOpen, scoped, notSessionVars>>

\* return self.http_session.close()
ClientClose ==
    LET r == SessionClose(sessionOpen) IN
    /\ sessionOpen' = r.open
    /\ lifecycle' = [op |-> "close", was_open |-> sessionOpen,
                     entered |-> lifecycle.entered, raised |-> r.raised]
    /\ scoped' = [u \in LifecycleTasks |->
                     IF scoped[u].pc # "idle"
                     THEN [scoped[u] EXCEPT !.disturbed = TRUE]
                     ELSE scoped[u]]
    /\ UNCHANGED notSessionVars

\* The session the creator was given is open; no lifecycle operation yet.
InitSession ==
    /\ sessionOpen = TRUE
    /\ lifecycle = [op |-> "none", entered |-> FALSE, raised |-> None]
    /\ scoped = [t \in LifecycleTasks |-> Idle]

\* One client: its calls and its lifecycle operations, in any order.
NextSession ==
    \/ \E c \in SessionCalls, n \in OperationNames, p \in ApiParams :
           MakeApiCall(c, n, p)
    \/ \E c \in SessionCalls, s \in StatusCodes, b \in ParsedBodies :
           DispatchReturns(c, s, b)
    \/ \E c \in SessionCalls, f \in TransportFaults : DispatchFails(c, f)
    \/ \E c \in SessionCalls : Cancel(c)
    \/ \E t \in LifecycleTasks, fails \in BOOLEAN : ClientEnterCall(t, fails)
    \/ \E t \in LifecycleTasks : ClientEnterReturn(t)
    \/ \E t \in LifecycleTasks, e \in AwaitExceptions : ClientEnterRaises(t, e)
    \/ \E t \in LifecycleTasks, fails \in BOOLEAN : ClientExitCall(t, fails)
    \/ \E t \in LifecycleTasks : ClientExitReturn(t)
    \/ \E t \in LifecycleTasks, e \in AwaitExceptions : ClientExitRaises(t, e)
    \/ ClientClose

(***************************************************************************)
(* Python values, as far as the type checks of config.py tell them apart.  *)
(***************************************************************************)
PyBool(b) == [type |-> "bool", val |-> b]
PyInt(n) == [type |-> "int", val |-> n]
\* A float, by its decimal text.
PyFloat(x) == [type |-> "float", val |-> x]
PyStr(x) == [type |-> "str", val |-> x]
SSLContextObject == [type |-> "SSLContext", val |-> "ctx"]
\* A dict: its items in iteration order, the keys distinct.
PyDict(items) == [type |-> "dict", items |-> items]

\* isinstance(v, cls); bool is a subclass of int.
IsInstance(v, cls) ==
    \/ v.type = cls
    \/ (cls = "int" /\ v.type = "bool")

\* key in d
HasKey(d, k) == \E i \in 1..Len(d.items) : d.items[i].key = k

\* not d, for d a dict or None
Falsy(d) == d = None \/ d.items = <<>>

(***************************************************************************)
(* AsyncConfig                                                             *)
(***************************************************************************)
\* The keep-alive timeout set when connector_args gives none.
KeepaliveDefault == 12

ParamValidationError(report) ==
    [type |-> "ParamValidationError", report |-> report]

\* The body of the loop of _validate_connector_args for one item: None when
\* the item passes, the exception raised otherwise. A report is the pieces
\* str.format puts together.
ValidateConnectorArg(k, v) ==
    IF k \in {"use_dns_cache", "verify_ssl"}
    THEN IF ~IsInstance(v, "bool")
         THEN ParamValidationError(<<k, " value must be a boolean">>)
         ELSE None
    ELSE IF k \in {"keepalive_timeout"}
    THEN IF ~IsInstance(v, "float") /\ ~IsInstance(v, "int")
         THEN ParamValidationError(<<k, " value must be a float/int">>)
         ELSE None
    ELSE IF k = "force_close"
    THEN IF ~IsInstance(v, "bool")
         THEN ParamValidationError(<<k, " value must be a boolean">>)
         ELSE None
    ELSE IF k = "limit"
    THEN IF ~IsInstance(v, "int")
         THEN ParamValidationError(<<k, " value must be an int">>)
         ELSE None
    ELSE IF k = "ssl_context"
    THEN IF ~IsInstance(v, "SSLContext")
         THEN ParamValidationError(<<k, " must be an SSLContext instance">>)
         ELSE None
    ELSE ParamValidationError(<<"invalid connector_arg:", k>>)

\* for k, v in connector_args.items(): the first item that fails raises.
RECURSIVE ValidateItems(_)
ValidateItems(items) ==
    IF items = <<>> THEN None
    ELSE LET exc == ValidateConnectorArg(Head(items).key, Head(items).value) IN
         IF exc # None THEN exc ELSE ValidateItems(Tail(items))

\* AsyncConfig._validate_connector_args: None, or the exception raised.
ValidateConnectorArgs(connector_args) ==
    IF connector_args = None THEN None
    ELSE ValidateItems(connector_args.items)

\* Mutant of FillKeepalive: the test is on the value's truth, not on the
\* key's presence, so a keep-alive of 0 is replaced by the default.
FillKeepaliveWhenFalsy(connector_args) ==
    IF ~HasKey(connector_args, "keepalive_timeout")
    THEN PyDict(Append(connector_args.items,
                       [key |-> "keepalive_timeout",
                        value |-> PyInt(KeepaliveDefault)]))
    ELSE PyDict([i \in 1..Len(connector_args.items) |->
                  IF connector_args.items[i] =
                         [key |-> "keepalive_timeout", value |-> PyInt(0)]
                  THEN [key |-> "keepalive_timeout",
                        value |-> PyInt(KeepaliveDefault)]
                  ELSE connector_args.items[i]])

\* if 'keepalive_timeout' not in self.connector_args: ... = 12
FillKeepalive(connector_args) ==
    IF ~HasKey(connector_args, "keepalive_timeout")
    THEN PyDict(Append(connector_args.items,
                       [key |-> "keepalive_timeout",
                        value |-> PyInt(KeepaliveDefault)]))
    ELSE connector_args

\* AsyncConfig.__init__(connector_args, **kwargs): the object built, or the
\* exception raised. The parent class records kwargs as the options the user
\* provided.
AsyncConfigInit(connector_args, kwargs) ==
    LET exc == ValidateConnectorArgs(connector_args) IN
    IF exc # None THEN [ok |-> FALSE, exc |-> exc]
    ELSE LET copied == connector_args
             args == IF Falsy(copied) THEN PyDict(<<>>) ELSE copied
         IN [ok |-> TRUE,
             config |-> [user_provided_options |-> kwargs,
                         connector_args |-> FillKeepalive(args)]]

\* Keys and values of the connector_args mappings given to AsyncConfig.
\* "timeout" is a key _validate_connector_args does not know.
ConnectorKeys ==
    {"use_dns_cache", "verify_ssl", "keepalive_timeout", "force_close",
     "limit", "ssl_context", "timeout"}
ConnectorValues ==
    {PyBool(TRUE), PyInt(0), PyInt(10), PyFloat("7.5"), PyStr("10"),
     SSLContextObject, None}
ConnectorItems == [key : ConnectorKeys, value : ConnectorValues]

\* The dicts of at most n items.
Dicts(n) ==
    { PyDict(items) : items \in
        { s \in UNION { [1..m -> ConnectorItems] : m \in 0..n } :
            \A i, j \in 1..Len(s) : i # j => s[i].key # s[j].key } }

ConnectorArgsGiven == {None} \cup Dicts(MaxConnectorArgs)

\* Keyword arguments given to AsyncConfig beside connector_args.
NoKwargs == [k \in {} |-> None]
KwargsGiven == {NoKwargs, [region_name |-> PyStr("us-east-1")]}

\* AsyncConfig(connector_args, **kwargs) is called.
Construct(connector_args, kwargs) ==
    /\ given = Unset
    /\ given' = [connector_args |-> connector_args, kwargs |-> kwargs]
    /\ LET r == AsyncConfigInit(connector_args, kwargs) IN
       IF r.ok
       THEN config' = r.config /\ raised' = None
       ELSE config' = None /\ raised' = r.exc
    /\ UNCHANGED notConfigVars

InitConfig ==
    /\ given = Unset
    /\ config = None
    /\ raised = None

\* Each behaviour constructs one config: the inputs are enumerated only
\* while none has been constructed.
NextConfig ==
    /\ given = Unset
    /\ \E a \in ConnectorArgsGiven, k \in KwargsGiven : Construct(a, k)

(***************************************************************************)
(* AsyncConfig.merge                                                       *)
(***************************************************************************)
\* d.update(e) on keyword mappings: the entries of e override those of d.
Update(d, e) ==
    [k \in DOMAIN d \cup DOMAIN e |-> IF k \in DOMAIN e THEN e[k] ELSE d[k]]

\* self.merge(other_config): what AsyncConfig(...) on the last line gives.
Merge(self, other_config) ==
    LET config_options ==
            Update(self.user_provided_options,
                   other_config.user_provided_options)
    IN AsyncConfigInit(self.connector_args, config_options)

\* The configs merged: built from these connector_args and keyword arguments.
MergeConnectorArgs ==
    {None,
     PyDict(<<>>),
     PyDict(<<[key |-> "limit", value |-> PyInt(10)]>>),
     PyDict(<<[key |-> "keepalive_timeout", value |-> PyInt(0)],
              [key |-> "force_close", value |-> PyBool(TRUE)]>>)}
MergeKwargs ==
    {NoKwargs,
     [region_name |-> PyStr("us-east-1")],
     [region_name |-> PyStr("eu-west-1"), read_timeout |-> PyInt(30)],
     [read_timeout |-> PyInt(5), connect_timeout |-> PyInt(5)]}

\* The config merge will be called on is constructed.
ConstructFirst(connector_args, kwargs) ==
    /\ first = None
    /\ LET r == AsyncConfigInit(connector_args, kwargs) IN
       /\ r.ok
       /\ first' = [connector_args |-> connector_args, kwargs |-> kwargs,
                    config |-> r.config]
    /\ UNCHANGED <<second, merged, notMergeVars>>

\* The config that will be passed to merge is constructed.
ConstructSecond(connector_args, kwargs) ==
    /\ second = None
    /\ LET r == AsyncConfigInit(connector_args, kwargs) IN
       /\ r.ok
       /\ second' = [connector_args |-> connector_args, kwargs |-> kwargs,
                     config |-> r.config]
    /\ UNCHANGED <<first, merged, notMergeVars>>

\* first.merge(second) is called.
CallMerge ==
    /\ first # None
    /\ second # None
    /\ merged = None
    /\ LET r == Merge(first.config, second.config) IN
       /\ r.ok
       /\ merged' = r.config
    /\ UNCHANGED <<first, second, notMergeVars>>

InitMerge ==
    /\ first = None
    /\ second = None
    /\ merged = None

NextMerge ==
    \/ \E a \in MergeConnectorArgs, k \in MergeKwargs : ConstructFirst(a, k)
    \/ \E a \in MergeConnectorArgs, k \in MergeKwargs : ConstructSecond(a, k)
    \/ CallMerge

(***************************************************************************)
(* AsyncClientCreator._get_client_args                                     *)
(***************************************************************************)
\* Text the code looks into is the tuple of its characters.
UpperCase ==
    <<"A", "B", "C", "D", "E", "F", "G", "H", "I", "J", "K", "L", "M",
      "N", "O", "P", "Q", "R", "S", "T", "U", "V", "W", "X", "Y", "Z">>
LowerCase ==
    <<"a", "b", "c", "d", "e", "f", "g", "h", "i", "j", "k", "l", "m",
      "n", "o", "p", "q", "r", "s", "t", "u", "v", "w", "x", "y", "z">>

\* str.lower()
Lower(text) ==
    [i \in 1..Len(text) |->
        IF \E n \in 1..Len(UpperCase) : UpperCase[n] = text[i]
        THEN LowerCase[CHOOSE n \in 1..Len(UpperCase) : UpperCase[n] = text[i]]
        ELSE text[i]]

\* str(v) of a value a configuration file gives: a string is itself.
Str(v) == v.val

\* The defaults of the options of the parent class Config.
OptionDefaults ==
    [region_name |-> None, signature_version |-> None, user_agent |-> None,
     user_agent_extra |-> None, connect_timeout |-> PyInt(60),
     read_timeout |-> PyInt(60), parameter_validation |-> PyBool(TRUE),
     s3 |-> None]

\* config.<name>: the option the user provided, or its default.
Attr(cfg, name) ==
    IF name \in DOMAIN cfg.user_provided_options
    THEN cfg.user_provided_options[name]
    ELSE OptionDefaults[name]

\* A scoped (file) configuration: None, or a dict from names to strings.
ScopedDict(map) == [type |-> "dict", map |-> map]
\* scoped_config.get(name, default)
ScopedGet(scoped_config, name, default) ==
    IF name \in DOMAIN scoped_config.map THEN scoped_config.map[name]
    ELSE default

\* Mutant of ParameterValidation: the file value is compared without
\* lower().
ParameterValidationNoLower(client_config, scoped_config) ==
    IF client_config # None /\ ~Attr(client_config, "parameter_validation").val
    THEN FALSE
    ELSE IF scoped_config # None /\ DOMAIN scoped_config.map # {}
    THEN LET raw_value == Str(ScopedGet(scoped_config, "parameter_validation",
                                        PyStr(<<>>)))
         IN IF raw_value = <<"f", "a", "l", "s", "e">> THEN FALSE ELSE TRUE
    ELSE TRUE

\* parameter_validation as handed to create_serializer.
ParameterValidation(client_config, scoped_config) ==
    IF client_config # None /\ ~Attr(client_config, "parameter_validation").val
    THEN FALSE
    ELSE IF scoped_config # None /\ DOMAIN scoped_config.map # {}
    THEN LET raw_value == Str(ScopedGet(scoped_config, "parameter_validation",
                                        PyStr(<<>>)))
         IN IF Lower(raw_value) = <<"f", "a", "l", "s", "e">>
            THEN FALSE ELSE TRUE
    ELSE TRUE

\* The user agent: the pieces the string is put together from.
UserAgent(default_user_agent, client_config) ==
    IF client_config = None THEN <<default_user_agent>>
    ELSE LET base == IF Attr(client_config, "user_agent") # None
                     THEN Attr(client_config, "user_agent").val
                     ELSE default_user_agent
         IN IF Attr(client_config, "user_agent_extra") # None
            THEN <<base, " ", Attr(client_config, "user_agent_extra").val>>
            ELSE <<base>>

\* self._inject_s3_configuration(config_kwargs, scoped_config,
\* client_config): the parent class sets config_kwargs['s3'] from the s3
\* section of the scoped configuration, overridden by client_config.s3.
InjectS3Configuration(scoped_config, client_config) ==
    LET from_file == IF scoped_config = None THEN None
                     ELSE ScopedGet(scoped_config, "s3", None)
        scoped_s3 == IF from_file.type = "dict" THEN from_file ELSE None
    IN IF client_config # None /\ Attr(client_config, "s3") # None
       THEN IF scoped_s3 = None
            THEN Attr(client_config, "s3")
            ELSE ScopedDict(Update(scoped_s3.map,
                                   Attr(client_config, "s3").map))
       ELSE scoped_s3

\* config_kwargs as passed to AsyncConfig(**config_kwargs).
ConfigKwargs(endpoint_config, user_agent, scoped_config, client_config) ==
    LET resolved == [region_name |-> PyStr(endpoint_config.region_name),
                     signature_version |->
                         PyStr(endpoint_config.signature_version),
                     user_agent |-> PyStr(user_agent),
                     s3 |-> InjectS3Configuration(scoped_config,
                                                  client_config)]
    IN IF client_config # None
       THEN Update(resolved,
                   [connect_timeout |-> Attr(client_config, "connect_timeout"),
                    read_timeout |-> Attr(client_config, "read_timeout")])
       ELSE resolved

\* The user agent of the creator.
DefaultUserAgent == "Botocore"

\* Mutant of GetClientArgsResult: the connector options of the explicit
\* config are handed on to the new config.
GetClientArgsResultKeepsArgs(client_config, scoped_config, endpoint_config) ==
    LET parameter_validation ==
            ParameterValidation(client_config, scoped_config)
        user_agent == UserAgent(DefaultUserAgent, client_config)
        new_config ==
            AsyncConfigInit(
                IF client_config = None THEN None
                ELSE client_config.connector_args,
                ConfigKwargs(endpoint_config, user_agent, scoped_config,
                             client_config)).config
    IN [serializer |-> [parameter_validation |-> parameter_validation],
        endpoint |-> [timeout |-> <<Attr(new_config, "connect_timeout"),
                                    Attr(new_config, "read_timeout")>>],
        client_config |-> new_config]

\* The bundle _get_client_args returns, as far as it depends on the configs.
GetClientArgsResult(client_config, scoped_config, endpoint_config) ==
    LET parameter_validation ==
            ParameterValidation(client_config, scoped_config)
        user_agent == UserAgent(DefaultUserAgent, client_config)
        new_config ==
            AsyncConfigInit(None,
                ConfigKwargs(endpoint_config, user_agent, scoped_config,
                             client_config)).config
    IN [serializer |-> [parameter_validation |-> parameter_validation],
        endpoint |-> [timeout |-> <<Attr(new_config, "connect_timeout"),
                                    Attr(new_config, "read_timeout")>>],
        client_config |-> new_config]

\* The explicit configs, file configurations and endpoint resolutions given.
FactoryConnectorArgs ==
    {None, PyDict(<<[key |-> "limit", value |-> PyInt(10)]>>)}
FactoryS3 ==
    {NoKwargs,
     [s3 |-> ScopedDict([addressing_style |-> PyStr("path")])],
     [s3 |-> ScopedDict([use_accelerate_endpoint |-> PyBool(TRUE)])]}
FactoryKwargs ==
    { Update(Update(Update(pv, ua), to), s3) :
        pv \in {NoKwargs, [parameter_validation |-> PyBool(TRUE)],
                [parameter_validation |-> PyBool(FALSE)]},
        ua \in {NoKwargs, [user_agent |-> PyStr("agent")],
                [user_agent_extra |-> PyStr("extra")]},
        to \in {NoKwargs, [connect_timeout |-> PyInt(5)]},
        s3 \in FactoryS3 }
ClientConfigsGiven ==
    {None} \cup
    { AsyncConfigInit(a, k).config :
        a \in FactoryConnectorArgs, k \in FactoryKwargs }
ScopedValues ==
    { PyStr(<<"f", "a", "l", "s", "e">>), PyStr(<<"F", "a", "l", "s", "e">>),
      PyStr(<<"F", "A", "L", "S", "E">>), PyStr(<<"f", "a", "L", "s", "E">>),
      PyStr(<<"t", "r", "u", "e">>), PyStr(<<>>), PyStr(<<"n", "o">>),
      PyStr(<<"f", "a", "l", "s", "e", " ">>) }
ScopedConfigsGiven ==
    {None, ScopedDict(NoKwargs), ScopedDict([region |-> PyStr(<<"x">>)]),
     ScopedDict([s3 |-> ScopedDict([addressing_style |-> PyStr("virtual")])]),
     ScopedDict([s3 |-> PyStr("virtual")])}
    \cup { ScopedDict([parameter_validation |-> v]) : v \in ScopedValues }
EndpointConfigsGiven ==
    {[region_name |-> "us-east-1", signature_version |-> "v4"]}

\* _get_client_args is called.
GetClientArgs(client_config, scoped_config, endpoint_config) ==
    /\ factoryGiven = Unset
    /\ factoryGiven' = [client_config |-> client_config,
                        scoped_config |-> scoped_config,
                        endpoint_config |-> endpoint_config]
    /\ clientArgs' =
           GetClientArgsResult(client_config, scoped_config, endpoint_config)
    /\ UNCHANGED notFactoryVars

NextFactory ==
    /\ factoryGiven = Unset
    /\ \E c \in ClientConfigsGiven, s \in ScopedConfigsGiven,
          e \in EndpointConfigsGiven : GetClientArgs(c, s, e)

(***************************************************************************)
(* AsyncBaseClient.get_paginator                                           *)
(***************************************************************************)
\* self._PY_TO_OP_NAME: generated method name -> operation name of the
\* service description.
PyToOpName == [list_buckets |-> "ListBuckets", get_object |-> "GetObject"]
\* self._cache['page_config']: the pagination metadata, by operation name.
PageConfig ==
    [ListBuckets |-> [input_token |-> "ContinuationToken",
                      output_token |-> "NextContinuationToken",
                      result_key |-> "Buckets"]]
\* The names get_paginator is called with; "no_such_op" is no method.
PaginatorNames == {"list_buckets", "get_object", "no_such_op"}

\* d[k] of a dict: the value, or the KeyError raised.
Lookup(d, k) ==
    IF k \in DOMAIN d THEN [ok |-> TRUE, value |-> d[k]]
    ELSE [ok |-> FALSE, exc |-> [type |-> "KeyError", key |-> k]]

\* self.can_paginate(operation_name) of the parent class:
\* self._PY_TO_OP_NAME[operation_name] in self._cache['page_config'].
CanPaginate(operation_name) ==
    LET actual == Lookup(PyToOpName, operation_name) IN
    IF ~actual.ok THEN actual
    ELSE [ok |-> TRUE, value |-> actual.value \in DOMAIN PageConfig]

\* Mutant of NewPaginator: the page configuration is looked up under the
\* generated method name.
NewPaginatorByMethodName(operation_name, page_iterator_cls) ==
    LET cfg == Lookup(PageConfig, operation_name) IN
    IF ~cfg.ok THEN [kind |-> "raise", exc |-> cfg.exc]
    ELSE [kind |-> "paginator", method |-> operation_name,
          pagination_config |-> cfg.value,
          constructed_under |-> page_iterator_cls]

\* Paginator(getattr(self, operation_name),
\*           self._cache['page_config'][actual_operation_name]), with the
\* value Paginator.PAGE_ITERATOR_CLS had when it was constructed.
NewPaginator(operation_name, page_iterator_cls) ==
    LET actual_operation_name == Lookup(PyToOpName, operation_name).value
        cfg == Lookup(PageConfig, actual_operation_name)
    IN IF ~cfg.ok THEN [kind |-> "raise", exc |-> cfg.exc]
       ELSE [kind |-> "paginator", method |-> operation_name,
             pagination_config |-> cfg.value,
             constructed_under |-> page_iterator_cls]

\* Mutant of GetPaginatorCheck: the page iterator class is substituted
\* before can_paginate is asked.
GetPaginatorCheckInstallsFirst(p, operation_name) ==
    /\ pgpc[p] = "idle"
    /\ pgop' = [pgop EXCEPT ![p] = operation_name]
    /\ pageIteratorCls' = "AsyncPageIterator"
    /\ LET can == CanPaginate(operation_name) IN
       IF ~can.ok
       THEN /\ pgresult' = [pgresult EXCEPT ![p] =
                               [kind |-> "raise", exc |-> can.exc]]
            /\ pgpc' = [pgpc EXCEPT ![p] = "done"]
       ELSE IF ~can.value
       THEN /\ pgresult' = [pgresult EXCEPT ![p] =
                   [kind |-> "raise",
                    exc |-> [type |-> "OperationNotPageableError",
                             operation_name |-> operation_name]]]
            /\ pgpc' = [pgpc EXCEPT ![p] = "done"]
       ELSE /\ pgpc' = [pgpc EXCEPT ![p] = "pageable"]
            /\ UNCHANGED pgresult
    /\ UNCHANGED <<iter, engineCalls, pagesYielded, notPaginatorVars>>

\* get_paginator(operation_name) up to the branch on can_paginate.
GetPaginatorCheck(p, operation_name) ==
    /\ pgpc[p] = "idle"
    /\ pgop' = [pgop EXCEPT ![p] = operation_name]
    /\ LET can == CanPaginate(operation_name) IN
       IF ~can.ok
       THEN /\ pgresult' = [pgresult EXCEPT ![p] =
                               [kind |-> "raise", exc |-> can.exc]]
            /\ pgpc' = [pgpc EXCEPT ![p] = "done"]
       ELSE IF ~can.value
       THEN /\ pgresult' = [pgresult EXCEPT ![p] =
                   [kind |-> "raise",
                    exc |-> [type |-> "OperationNotPageableError",
                             operation_name |-> operation_name]]]
            /\ pgpc' = [pgpc EXCEPT ![p] = "done"]
       ELSE /\ pgpc' = [pgpc EXCEPT ![p] = "pageable"]
            /\ UNCHANGED pgresult
    /\ UNCHANGED <<pageIteratorCls, iter, engineCalls, pagesYielded,
                   notPaginatorVars>>

\* Mutant of GetPaginatorInstall: the assignment to PAGE_ITERATOR_CLS is
\* missing.
GetPaginatorInstallNothing(p) ==
    /\ pgpc[p] = "pageable"
    /\ pgpc' = [pgpc EXCEPT ![p] = "installed"]
    /\ UNCHANGED <<pageIteratorCls, pgop, pgresult, iter, engineCalls,
                   pagesYielded, notPaginatorVars>>

\* Paginator.PAGE_ITERATOR_CLS = AsyncPageIterator
GetPaginatorInstall(p) ==
    /\ pgpc[p] = "pageable"
    /\ pageIteratorCls' = "AsyncPageIterator"
    /\ pgpc' = [pgpc EXCEPT ![p] = "installed"]
    /\ UNCHANGED <<pgop, pgresult, iter, engineCalls, pagesYielded,
                   notPaginatorVars>>

\* Mutant of GetPaginatorConstruct: the class substituted is put back to the
\* default once the paginator is constructed.
GetPaginatorConstructAndRestore(p) ==
    /\ pgpc[p] = "installed"
    /\ pgresult' = [pgresult EXCEPT ![p] = NewPaginator(pgop[p], pageIteratorCls)]
    /\ pageIteratorCls' = "PageIterator"
    /\ pgpc' = [pgpc EXCEPT ![p] = "done"]
    /\ UNCHANGED <<pgop, iter, engineCalls, pagesYielded, notPaginatorVars>>

\* paginator = Paginator(...); return paginator
GetPaginatorConstruct(p) ==
    /\ pgpc[p] = "installed"
    /\ pgresult' = [pgresult EXCEPT ![p] = NewPaginator(pgop[p], pageIteratorCls)]
    /\ pgpc' = [pgpc EXCEPT ![p] = "done"]
    /\ UNCHANGED <<pageIteratorCls, pgop, iter, engineCalls, pagesYielded,
                   notPaginatorVars>>

(***************************************************************************)
(* The iteration of a paginator: Paginator.paginate() and the page         *)
(* iterator installed as Paginator.PAGE_ITERATOR_CLS.                      *)
(***************************************************************************)
\* A continuation token: the one returned with page k.
Token(k) == [kind |-> "token", after |-> k]

\* The answer of a server holding n pages to a call given a token: page 1
\* for no token, page k + 1 for the token of page k, with a token on every
\* page but the last.
ServerPage(n, token) ==
    LET k == IF token = None THEN 1 ELSE token.after + 1 IN
    [page |-> k, next_token |-> IF k < n THEN Token(k) ELSE None]

\* Mutant of IterRequestToken: every call is made with the starting token.
IterRequestTokenStart(it) == None

\* The token the iterator gives to its next call: that of the last page.
IterRequestToken(it) == it.token

\* The iterator has yielded a page that came with no token.
IterFinished(it) == it.started /\ it.token = None

\* paginator.paginate() on the paginator call p returned, for a server
\* holding n pages: the iterator is of the class installed at that moment.
Paginate(p, n) ==
    /\ iter = None
    /\ pgresult[p].kind = "paginator"
    /\ iter' = [paginator |-> p, cls |-> pageIteratorCls, server_pages |-> n,
                token |-> None, started |-> FALSE, state |-> "active"]
    /\ UNCHANGED <<pageIteratorCls, pgpc, pgop, pgresult, engineCalls,
                   pagesYielded, notPaginatorVars>>

\* The next page is asked of the iterator: one call of the bound method
\* with the last token, or the end of the iteration.
NextPage ==
    /\ iter # None
    /\ iter.state = "active"
    /\ Len(engineCalls) <= MaxPages
    /\ IF IterFinished(iter)
       THEN /\ iter' = [iter EXCEPT !.state = "exhausted"]
            /\ UNCHANGED <<engineCalls, pagesYielded>>
       ELSE LET token == IterRequestToken(iter)
                response == ServerPage(iter.server_pages, token)
            IN /\ engineCalls' = Append(engineCalls, token)
               /\ pagesYielded' = Append(pagesYielded, response)
               /\ iter' = [iter EXCEPT !.token = response.next_token,
                                       !.started = TRUE]
    /\ UNCHANGED <<pageIteratorCls, pgpc, pgop, pgresult, notPaginatorVars>>

InitPaginator ==
    /\ pageIteratorCls = "PageIterator"
    /\ pgpc = [p \in PaginatorCalls |-> "idle"]
    /\ pgop = [p \in PaginatorCalls |-> None]
    /\ pgresult = [p \in PaginatorCalls |-> None]
    /\ iter = None
    /\ engineCalls = <<>>
    /\ pagesYielded = <<>>

NextPaginator ==
    \/ \E p \in PaginatorCalls, n \in PaginatorNames : GetPaginatorCheck(p, n)
    \/ \E p \in PaginatorCalls : GetPaginatorInstall(p)
    \/ \E p \in PaginatorCalls : GetPaginatorConstruct(p)
    \/ \E p \in PaginatorCalls, n \in 1..MaxPages : Paginate(p, n)
    \/ NextPage

InitFactory ==
    /\ factoryGiven = Unset
    /\ clientArgs = None

(***************************************************************************)
(* AsyncClientCreator._create_client_class: the methods and the name       *)
(* mapping go into the class attributes, the 'creating-client-class' event *)
(* hands the attributes and the bases to the observers, which may change   *)
(* both in place, and the type is built from what they left.               *)
(***************************************************************************)
NumClasses == 2
ClassCreations == 1..NumClasses

\* The service descriptions classes are created for.
ServiceModels ==
    { [service_name |-> "s3", module_name |-> "S3",
       operation_names |-> {"ListBuckets", "GetObject"}],
      [service_name |-> "sqs", module_name |-> "SQS",
       operation_names |-> {"SendMessage"}] }

\* xform_name: the generated (snake-cased) name of an operation.
XformName ==
    [ListBuckets |-> "list_buckets", GetObject |-> "get_object",
     SendMessage |-> "send_message"]

PyNames(service_model) ==
    {XformName[o] : o \in service_model.operation_names}

OperationOf(service_model, py_name) ==
    CHOOSE o \in service_model.operation_names : XformName[o] = py_name

\* self._create_methods(service_model): one method per operation, under its
\* generated name.
CreateMethods(service_model) ==
    [n \in PyNames(service_model) |->
        [kind |-> "api_method",
         operation_name |-> OperationOf(service_model, n)]]

\* self._create_name_mapping(service_model)
CreateNameMapping(service_model) ==
    [n \in PyNames(service_model) |-> OperationOf(service_model, n)]

\* d[key] = value on a dict whose keys are strings
SetItem(d, key, value) ==
    [k \in DOMAIN d \cup {key} |-> IF k = key THEN value ELSE d[k]]

\* What the observers of the event do to the two objects they are handed:
\* nothing, add a method, replace a generated method, put a base in front.
Observers == {"none", "inject_method", "replace_method", "add_base"}

ObservedAttributes(observer, class_attributes) ==
    CASE observer = "inject_method" ->
            SetItem(class_attributes, "upload_file", [kind |-> "injected"])
      [] observer = "replace_method" ->
            [k \in DOMAIN class_attributes |->
                IF class_attributes[k] \in [kind : {"api_method"},
                                            operation_name : DOMAIN XformName]
                THEN [kind |-> "replaced"]
                ELSE class_attributes[k]]
      [] OTHER -> class_attributes

ObservedBases(observer, bases) ==
    IF observer = "add_base" THEN <<"Mixin">> \o bases ELSE bases

\* The emit on lines 102-104 as the observers see it and as they leave it.
Emit(k, service_name, class_attributes, bases, observer) ==
    [creation |-> k,
     event |-> <<"creating-client-class", service_name>>,
     class_attributes |-> class_attributes,
     base_classes |-> bases,
     attributes_left |-> ObservedAttributes(observer, class_attributes),
     bases_left |-> ObservedBases(observer, bases)]

\* type(str(class_name), tuple(bases), class_attributes)
Type(class_name, bases, class_attributes) ==
    [kind |-> "type", name |-> class_name, bases |-> bases,
     attributes |-> class_attributes]

\* Mutant of CreateClientClass: the type is built before the event is
\* emitted, from the attributes and bases as they were then.
CreateClientClassTypeBeforeEmit(k, service_model, observer) ==
    /\ clientClass[k] = None
    /\ LET class_attributes ==
               SetItem(CreateMethods(service_model), "_PY_TO_OP_NAME",
                       CreateNameMapping(service_model))
           bases == <<"AsyncBaseClient">>
           emitted == Emit(k, service_model.service_name, class_attributes,
                           bases, observer)
       IN /\ classHooks' = Append(classHooks, emitted)
          /\ clientClass' = [clientClass EXCEPT ![k] =
                 Type(service_model.module_name, bases, class_attributes)]
    /\ UNCHANGED <<instances, notClassVars>>

\* _create_client_class(service_name, service_model), from entry to return.
CreateClientClass(k, service_model, observer) ==
    /\ clientClass[k] = None
    /\ LET class_attributes ==
               SetItem(CreateMethods(service_model), "_PY_TO_OP_NAME",
                       CreateNameMapping(service_model))
           bases == <<"AsyncBaseClient">>
           emitted == Emit(k, service_model.service_name, class_attributes,
                           bases, observer)
       IN /\ classHooks' = Append(classHooks, emitted)
          /\ clientClass' = [clientClass EXCEPT ![k] =
                 Type(service_model.module_name, emitted.bases_left,
                      emitted.attributes_left)]
    /\ UNCHANGED <<instances, notClassVars>>

\* The caller of _create_client_class instantiates the type it returned.
Instantiate(k) ==
    /\ clientClass[k] # None
    /\ ~instances[k]
    /\ instances' = [instances EXCEPT ![k] = TRUE]
    /\ UNCHANGED <<classHooks, clientClass, notClassVars>>

InitClass ==
    /\ classHooks = <<>>
    /\ clientClass = [k \in ClassCreations |-> None]
    /\ instances = [k \in ClassCreations |-> FALSE]

NextClass ==
    \/ \E k \in ClassCreations, m \in ServiceModels, o \in Observers :
           CreateClientClass(k, m, o)
    \/ \E k \in ClassCreations : Instantiate(k)

InitCalls ==
    /\ pc = [c \in Calls |-> "idle"]
    /\ req = [c \in Calls |-> None]
    /\ resp = [c \in Calls |-> None]
    /\ outcome = [c \in Calls |-> None]
    /\ events = <<>>

Next ==
    \/ \E c \in Calls, n \in OperationNames, p \in ApiParams :
           MakeApiCall(c, n, p)
    \/ \E c \in Calls, s \in StatusCodes, b \in ParsedBodies :
           DispatchReturns(c, s, b)
    \/ \E c \in Calls, f \in TransportFaults : DispatchFails(c, f)
    \/ \E c \in Calls : Cancel(c)

Init ==
    /\ InitCalls /\ InitConfig /\ InitMerge /\ InitFactory /\ InitPaginator
    /\ InitSession /\ InitClass

Spec == Init /\ [][Next]_vars

SpecConfig == Init /\ [][NextConfig]_vars

SpecMerge == Init /\ [][NextMerge]_vars

SpecFactory == Init /\ [][NextFactory]_vars

SpecPaginator == Init /\ [][NextPaginator]_vars

SpecSession == Init /\ [][NextSession]_vars

SpecClass == Init /\ [][NextClass]_vars

\* The kinds of the events of call c, in the order they happened.
RECURSIVE KindsOf(_, _)
KindsOf(c, log) ==
    IF log = <<>> THEN <<>>
    ELSE (IF Head(log).call = c THEN <<Head(log).kind>> ELSE <<>>)
         \o KindsOf(c, Tail(log))

(***************************************************************************)
(* Claims about the execution engine, checked under Spec.                  *)
(***************************************************************************)
\* C1: a call whose dispatch returned a response, whatever its status code,
\* emitted the before-call hook once, then invoked make_request once, then
\* emitted the after-call hook once, and only then returned or raised; a call
\* still suspended has emitted the before-call hook once and invoked
\* make_request once.
C1_HooksAroundDispatch ==
    \A c \in Calls :
        /\ resp[c].kind = "response" =>
              KindsOf(c, events) \in
                  { <<"before-call", "make_request", "after-call", k>> :
                        k \in {"return", "raise"} }
        /\ pc[c] = "awaiting" =>
              KindsOf(c, events) = <<"before-call", "make_request">>

\* C1 witness: one call answered with an error status and another with a
\* success status have both completed.
C1_Witness ==
    \E c, d \in Calls :
        /\ resp[c].kind = "response" /\ resp[c].status_code >= 300
        /\ resp[d].kind = "response" /\ resp[d].status_code < 300

\* C2: a call whose dispatch returned a response raises ClientError with the
\* parsed body of that response and its own operation name when the status is
\* >= 300, and returns that parsed body when the status is < 300.
C2_ClassifyByStatus ==
    \A c \in Calls :
        resp[c].kind = "response" =>
            IF resp[c].status_code >= 300
            THEN outcome[c] =
                    [kind |-> "raise",
                     exc |-> [type |-> "ClientError",
                              response |-> resp[c].parsed,
                              operation_name |-> req[c].operation_name]]
            ELSE outcome[c] = [kind |-> "return", value |-> resp[c].parsed]

\* C2 witness: a call answered with status 300 raised ClientError and a call
\* answered with status 299 returned.
C2_Witness ==
    \E c, d \in Calls :
        /\ resp[c].kind = "response" /\ resp[c].status_code = 300
        /\ outcome[c].kind = "raise"
        /\ resp[d].kind = "response" /\ resp[d].status_code = 299
        /\ outcome[d].kind = "return"

\* C3: when make_request fails with a transport fault the call raises that
\* same fault, the before-call hook was emitted once and no after-call hook
\* is emitted.
C3_FaultPropagates ==
    \A c \in Calls :
        resp[c].kind = "fault" =>
            /\ outcome[c] = [kind |-> "raise", exc |-> [type |-> resp[c].fault]]
            /\ KindsOf(c, events) = <<"before-call", "make_request", "raise">>

\* C3 witness: a call has failed with a transport fault.
C3_Witness ==
    \E c \in Calls : resp[c].kind = "fault" /\ pc[c] = "done"

\* C4: a call cancelled while suspended at dispatch never emits the
\* after-call hook, never returns a parsed body and never raises ClientError,
\* whatever the other calls on the client do.
C4_CancelSkipsAfterHook ==
    \A c \in Calls :
        resp[c].kind = "cancelled" =>
            /\ \A i \in 1..Len(events) :
                   ~(events[i].call = c /\ events[i].kind = "after-call")
            /\ outcome[c].kind = "raise"
            /\ outcome[c].exc.type = "CancelledError"

\* C4 witness: a call was cancelled while another call was in flight, and
\* that other call then completed with its after-call hook.
C4_Witness ==
    \E c, d \in Calls :
        /\ c # d
        /\ resp[c].kind = "cancelled"
        /\ events = <<Event(c, "before-call"), Event(c, "make_request"),
                      Event(d, "before-call"), Event(d, "make_request"),
                      Event(c, "raise"),
                      Event(d, "after-call"), Event(d, "return")>>

\* C5: a call that fails at resolve (unknown operation) or at serialize
\* (invalid parameters) raises the collaborator's error unchanged, emits no
\* hook and never invokes make_request.
C5_LocalFailureSendsNothing ==
    \A c \in Calls :
        (req[c] # None /\ (req[c].operation_name \notin Operations
                           \/ req[c].api_params = "invalid")) =>
            /\ outcome[c].kind = "raise"
            /\ outcome[c].exc =
                  (IF req[c].operation_name \notin Operations
                   THEN [type |-> "OperationNotFoundError",
                         name |-> req[c].operation_name]
                   ELSE [type |-> "ParamValidationError"])
            /\ KindsOf(c, events) = <<"raise">>
            /\ resp[c] = None

\* C5 witness: one call failed at resolve and another at serialize.
C5_Witness ==
    \E c, d \in Calls :
        /\ outcome[c].kind = "raise"
        /\ outcome[c].exc.type = "OperationNotFoundError"
        /\ outcome[d].kind = "raise"
        /\ outcome[d].exc.type = "ParamValidationError"

(***************************************************************************)
(* Claims about AsyncConfig, checked under SpecConfig.                     *)
(***************************************************************************)
\* The five connector options the data model lists.
FiveOptions ==
    {"keepalive_timeout", "limit", "force_close", "ssl_context",
     "use_dns_cache"}
\* The keys the validation knows: the five and the TLS-verification flag.
RecognizedKeys == FiveOptions \cup {"verify_ssl"}

\* The types a key requires, with boolean, integer, float, string and
\* TLS-context values told apart.
RequiredTypes(k) ==
    CASE k \in {"use_dns_cache", "verify_ssl", "force_close"} -> {"bool"}
      [] k = "keepalive_timeout" -> {"float", "int"}
      [] k = "limit" -> {"int"}
      [] k = "ssl_context" -> {"SSLContext"}
      [] OTHER -> {}

GivenADict == given # Unset /\ given.connector_args # None
GivenItems == given.connector_args.items
\* The exception's message names key k.
Names(exc, k) == \E i \in 1..Len(exc.report) : exc.report[i] = k
FailedNaming(k) ==
    /\ config = None
    /\ raised # None
    /\ raised.type = "ParamValidationError"
    /\ Names(raised, k)

\* C6 as stated: a mapping with a key outside the five listed options fails
\* with a validation error naming that key, whatever the other entries are.
C6_OutsideFiveRejected ==
    GivenADict =>
        \A i \in 1..Len(GivenItems) :
            GivenItems[i].key \notin FiveOptions =>
                FailedNaming(GivenItems[i].key)

\* C7: a mapping in which one known key holds a value of the wrong type, the
\* other items being valid, fails with a validation error naming that key.
C7_WrongTypeRejected ==
    GivenADict =>
        \A i \in 1..Len(GivenItems) :
            ( /\ GivenItems[i].key \in RecognizedKeys
              /\ GivenItems[i].value.type \notin RequiredTypes(GivenItems[i].key)
              /\ \A j \in 1..Len(GivenItems) :
                     j # i => GivenItems[j].value.type
                                  \in RequiredTypes(GivenItems[j].key) )
            => FailedNaming(GivenItems[i].key)

\* C8: for an absent mapping or one of known keys with values of the required
\* types, construction succeeds and the connector options are the input with
\* keep-alive 12 added exactly when the input has no keep-alive item.
C8_KeepaliveFilledOnlyWhenAbsent ==
    ( /\ given # Unset
      /\ \/ given.connector_args = None
         \/ \A i \in 1..Len(GivenItems) :
                GivenItems[i].value.type \in RequiredTypes(GivenItems[i].key) )
    => LET input == IF given.connector_args = None THEN <<>>
                    ELSE GivenItems
       IN /\ raised = None
          /\ config # None
          /\ config.connector_args =
                PyDict(IF \E i \in 1..Len(input) :
                              input[i].key = "keepalive_timeout"
                       THEN input
                       ELSE Append(input, [key |-> "keepalive_timeout",
                                           value |-> PyInt(12)]))

\* C8 witness: a config was built from a mapping giving keep-alive 0 and
\* another valid item.
C8_Witness ==
    /\ GivenADict
    /\ Len(GivenItems) = 2
    /\ GivenItems[2] = [key |-> "keepalive_timeout", value |-> PyInt(0)]
    /\ config # None
    /\ raised = None

(***************************************************************************)
(* Claim about AsyncConfig.merge, checked under SpecMerge.                 *)
(***************************************************************************)
\* C9: first.merge(second) has every option second was given, with second's
\* value, every other option first was given, with first's value, and the
\* connector options of first unless second was constructed with connector
\* options, which then are second's.
C9_MergeTakesSecondsOverrides ==
    merged # None =>
        LET a == first.config.user_provided_options
            b == second.config.user_provided_options
            m == merged.user_provided_options
        IN /\ DOMAIN m = DOMAIN a \cup DOMAIN b
           /\ \A k \in DOMAIN b : m[k] = b[k]
           /\ \A k \in DOMAIN a \ DOMAIN b : m[k] = a[k]
           /\ merged.connector_args =
                 (IF second.connector_args # None
                  THEN second.config.connector_args
                  ELSE first.config.connector_args)

(***************************************************************************)
(* Claims about _get_client_args, checked under SpecFactory.               *)
(***************************************************************************)
\* The text is "false" in some letter case.
IsFalseInAnyCase(text) ==
    /\ Len(text) = 5
    /\ text[1] \in {"f", "F"}
    /\ text[2] \in {"a", "A"}
    /\ text[3] \in {"l", "L"}
    /\ text[4] \in {"s", "S"}
    /\ text[5] \in {"e", "E"}

\* The file configuration gives parameter_validation as "false".
FileSaysFalse ==
    /\ factoryGiven.scoped_config # None
    /\ "parameter_validation" \in DOMAIN factoryGiven.scoped_config.map
    /\ IsFalseInAnyCase(factoryGiven.scoped_config.map.parameter_validation.val)

\* The flag of the explicit config.
ExplicitFlag ==
    Attr(factoryGiven.client_config, "parameter_validation").val

\* C10 as stated: when an explicit config is given its flag decides and the
\* file configuration is not consulted; with no explicit config, validation
\* is disabled exactly when the file value is "false" in any letter case.
C10_ExplicitConfigDecides ==
    factoryGiven # Unset =>
        clientArgs.serializer.parameter_validation =
            (IF factoryGiven.client_config # None
             THEN ExplicitFlag
             ELSE ~FileSaysFalse)

\* C10 amended: validation is disabled exactly when an explicit config is
\* given with the flag off, or the file value is "false" in any letter case
\* and no explicit config with the flag off is given (an explicit config with
\* the flag on does not keep the file value from disabling it).
C10_DisabledByFlagOffOrFile ==
    factoryGiven # Unset =>
        clientArgs.serializer.parameter_validation =
            (IF factoryGiven.client_config # None /\ ~ExplicitFlag
             THEN FALSE
             ELSE ~FileSaysFalse)

\* C10 witness: no explicit config disables validation and the file value
\* "FALSE" did.
C10_Witness ==
    /\ factoryGiven # Unset
    /\ factoryGiven.client_config = None
    /\ factoryGiven.scoped_config # None
    /\ factoryGiven.scoped_config.map =
           [parameter_validation |-> PyStr(<<"F", "A", "L", "S", "E">>)]
    /\ clientArgs.serializer.parameter_validation = FALSE

(***************************************************************************)
(* Claims about get_paginator and the iteration of a paginator, checked    *)
(* under SpecPaginator.                                                    *)
(***************************************************************************)
\* C11: get_paginator on an operation of the client without pagination
\* metadata raises OperationNotPageableError and constructs no paginator; on
\* a pageable operation it returns a paginator bound to the method of that
\* name and to the page configuration kept under the operation's name in the
\* service description.
C11_PaginatorOrNotPageable ==
    \A p \in PaginatorCalls :
        /\ (pgpc[p] # "idle" /\ pgop[p] = "get_object") =>
              /\ pgpc[p] = "done"
              /\ pgresult[p] =
                    [kind |-> "raise",
                     exc |-> [type |-> "OperationNotPageableError",
                              operation_name |-> "get_object"]]
        /\ (pgpc[p] = "done" /\ pgop[p] = "list_buckets") =>
              /\ pgresult[p].kind = "paginator"
              /\ pgresult[p].method = "list_buckets"
              /\ pgresult[p].pagination_config = PageConfig.ListBuckets

\* C11 witness: one call was refused and another returned a paginator.
C11_Witness ==
    \E p, q \in PaginatorCalls :
        /\ pgresult[p].kind = "raise"
        /\ pgresult[p].exc.type = "OperationNotPageableError"
        /\ pgresult[q].kind = "paginator"

\* C12: the iterator makes one call per page, gives each call the token of
\* the page before (none to the first), yields no page after one that came
\* without a token, and is exhausted after exactly n pages and n calls when
\* the server holds n pages.
C12_OneCallPerPageUntilNoToken ==
    iter # None =>
        /\ Len(engineCalls) = Len(pagesYielded)
        /\ Len(pagesYielded) <= iter.server_pages
        /\ \A i \in 1..Len(pagesYielded) :
               /\ pagesYielded[i].page = i
               /\ engineCalls[i] = (IF i = 1 THEN None
                                    ELSE pagesYielded[i - 1].next_token)
               /\ pagesYielded[i].next_token = None => i = Len(pagesYielded)
        /\ iter.state = "exhausted" =>
               /\ Len(pagesYielded) = iter.server_pages
               /\ Len(engineCalls) = iter.server_pages

\* C12 witness: the iteration over a server holding two pages is exhausted.
C12_Witness ==
    /\ iter # None
    /\ iter.state = "exhausted"
    /\ iter.server_pages = 2
    /\ Len(pagesYielded) = 2

\* C15: in every interleaving of get_paginator calls a paginator is
\* constructed while PAGE_ITERATOR_CLS is AsyncPageIterator, and once a call
\* has set it, it stays set whatever the other calls do.
C15_ConstructedUnderAsyncIterator ==
    /\ \A p \in PaginatorCalls :
          /\ pgpc[p] = "installed" => pageIteratorCls = "AsyncPageIterator"
          /\ pgresult[p].kind = "paginator" =>
                /\ pgresult[p].constructed_under = "AsyncPageIterator"
                /\ pageIteratorCls = "AsyncPageIterator"
    /\ iter # None => iter.cls = "AsyncPageIterator"

\* C15 witness: one call has returned its paginator while another is
\* between the substitution and the construction.
C15_Witness ==
    \E p, q \in PaginatorCalls :
        /\ pgpc[p] = "installed"
        /\ pgresult[q].kind = "paginator"

\* C16 as stated: AsyncPageIterator is in force while the paginator is
\* constructed, and the default PageIterator is in force again once
\* get_paginator has returned.
C16_DefaultRestoredOnReturn ==
    \A p \in PaginatorCalls :
        /\ pgresult[p].kind = "paginator" =>
              pgresult[p].constructed_under = "AsyncPageIterator"
        /\ (pgresult[p].kind = "paginator"
            /\ \A q \in PaginatorCalls : pgpc[q] \in {"idle", "done"}) =>
              pageIteratorCls = "PageIterator"

\* C16 amended: get_paginator sets PAGE_ITERATOR_CLS to AsyncPageIterator
\* before it constructs the paginator, the construction runs under it, and
\* it is still in force when get_paginator returns and ever after: no step
\* puts the default back.
C16_AsyncIteratorStaysInstalled ==
    [][ /\ \A p \in PaginatorCalls :
              (pgpc[p] = "installed" /\ pgpc'[p] = "done") =>
                  /\ pageIteratorCls = "AsyncPageIterator"
                  /\ pageIteratorCls' = "AsyncPageIterator"
        /\ pageIteratorCls = "AsyncPageIterator" =>
              pageIteratorCls' = "AsyncPageIterator" ]_vars

\* C16 witness: every call has returned, one of them with a paginator, and
\* AsyncPageIterator is still installed.
C16_Witness ==
    /\ \A q \in PaginatorCalls : pgpc[q] = "done"
    /\ \E p \in PaginatorCalls : pgresult[p].kind = "paginator"
    /\ pageIteratorCls = "AsyncPageIterator"

\* C19: a get_paginator call that raises leaves PAGE_ITERATOR_CLS as it was,
\* and PAGE_ITERATOR_CLS changes only in the step of a call on a pageable
\* operation that follows its can_paginate test.
C19_FailedCallLeavesIteratorClass ==
    [][ /\ \A p \in PaginatorCalls :
              (pgpc[p] = "idle" /\ pgpc'[p] = "done") =>
                  /\ pgresult'[p].kind = "raise"
                  /\ pageIteratorCls' = pageIteratorCls
        /\ pageIteratorCls' # pageIteratorCls =>
              \E p \in PaginatorCalls :
                  /\ pgpc[p] = "pageable"
                  /\ pgop[p] = "list_buckets"
                  /\ pgpc'[p] = "installed" ]_vars

\* C19 witness: a call was refused and PageIterator is still the class.
C19_Witness ==
    /\ \E p \in PaginatorCalls :
          /\ pgresult[p].kind = "raise"
          /\ pgresult[p].exc.type = "OperationNotPageableError"
    /\ pageIteratorCls = "PageIterator"

(***************************************************************************)
(* Suspension points of _make_api_call, checked under Spec.                *)
(***************************************************************************)
\* C14: with several calls in flight a call suspends only at its dispatch:
\* the only position between entry and exit is the await of make_request;
\* resolve, serialization, the before-call hook and the hand-over to
\* make_request happen in one step of one call, so the before-call event is
\* directly followed by that call's make_request; the resumption, the
\* after-call hook and the classification happen in one step of one call, so
\* the after-call event is directly followed by that call's return or raise.
C14_SuspendsOnlyAtDispatch ==
    /\ [](/\ \A c \in Calls : pc[c] \in {"idle", "awaiting", "done"}
          /\ \A i \in 1..Len(events) :
                /\ events[i].kind = "before-call" =>
                      /\ i < Len(events)
                      /\ events[i + 1] = Event(events[i].call, "make_request")
                /\ events[i].kind = "after-call" =>
                      /\ i < Len(events)
                      /\ events[i + 1].call = events[i].call
                      /\ events[i + 1].kind \in {"return", "raise"})
    /\ [][\A c \in Calls :
             pc'[c] # pc[c] =>
                /\ \A d \in Calls \ {c} :
                       /\ pc'[d] = pc[d]
                       /\ req'[d] = req[d]
                       /\ outcome'[d] = outcome[d]
                /\ (pc[c] = "idle" /\ pc'[c] = "awaiting") =>
                       /\ req'[c] # None
                       /\ events' = events \o <<Event(c, "before-call"),
                                                Event(c, "make_request")>>
                /\ (pc[c] = "awaiting" /\ resp'[c].kind = "response") =>
                       /\ pc'[c] = "done"
                       /\ outcome'[c] # None
                       /\ events' = events \o <<Event(c, "after-call"),
                                                Event(c, outcome'[c].kind)>>
         ]_vars

\* C14 witness: a second call ran up to its dispatch and was answered while
\* the first call was suspended, and the first call was answered after it.
C14_Witness ==
    \E c, d \in Calls :
        /\ c # d
        /\ pc[c] = "done" /\ pc[d] = "done"
        /\ KindsOf(d, events) \in {<<"before-call", "make_request",
                                     "after-call", "return">>,
                                   <<"before-call", "make_request",
                                     "after-call", "raise">>}
        /\ Len(events) = 8
        /\ events[1] = Event(c, "before-call")
        /\ events[2] = Event(c, "make_request")
        /\ events[3] = Event(d, "before-call")
        /\ events[7] = Event(c, "after-call")

(***************************************************************************)
(* The scoped lifecycle and the calls of one client, checked under         *)
(* SpecSession.                                                            *)
(***************************************************************************)
\* C13: over any entries, exits and closes on one client: the step in which
\* an entry calls the session leaves the session open, whether it was open
\* before or not; the step in which an exit calls it leaves it closed; a
\* close leaves it closed and raises nothing, whether the client was ever
\* entered or not and whether the session was open or already closed; the
\* end of an entry or exit, by return or by exception, does not touch the
\* session, and when nothing else acted on the session while the operation
\* was suspended, the entry ends with the session open and the exit with the
\* session closed; an entry or exit raises only what its await raised: the
\* session's exception or the cancellation of the task.
C13_EnterOpensExitAndCloseClose ==
    [][ /\ \A t \in LifecycleTasks :
              /\ (scoped[t].pc = "idle" /\ scoped'[t].pc = "entering") =>
                     sessionOpen'
              /\ (scoped[t].pc = "idle" /\ scoped'[t].pc = "exiting") =>
                     ~sessionOpen'
              /\ (scoped[t].pc = "entering" /\ scoped'[t].pc = "idle") =>
                     /\ lifecycle'.op = "enter"
                     /\ sessionOpen' = sessionOpen
                     /\ ~scoped[t].disturbed => sessionOpen'
              /\ (scoped[t].pc = "exiting" /\ scoped'[t].pc = "idle") =>
                     /\ lifecycle'.op = "exit"
                     /\ sessionOpen' = sessionOpen
                     /\ ~scoped[t].disturbed => ~sessionOpen'
        /\ (lifecycle' # lifecycle /\ lifecycle'.op = "close") =>
              /\ lifecycle'.was_open = sessionOpen
              /\ lifecycle'.raised = None
              /\ ~sessionOpen'
        /\ (lifecycle' # lifecycle /\ lifecycle'.raised # None) =>
              /\ lifecycle'.op \in {"enter", "exit"}
              /\ lifecycle'.raised \in AwaitExceptions
              /\ sessionOpen' = sessionOpen ]_vars

\* C13 witness: close was called on a client never entered whose session a
\* close had closed already.
C13_Witness ==
    /\ lifecycle.op = "close"
    /\ ~lifecycle.was_open
    /\ ~lifecycle.entered
    /\ \A t \in LifecycleTasks : scoped[t].pc = "idle"
    /\ ~sessionOpen

\* C17: no step of _make_api_call changes whether the session is open, be it
\* the step up to the dispatch, an answer of any status, a transport fault
\* or a cancellation; the session's state changes only in the step in which
\* __aenter__ or __aexit__ calls the session, or in a close.
C17_CallsLeaveSessionAlone ==
    [][ /\ (\E c \in Calls : pc'[c] # pc[c]) =>
              /\ sessionOpen' = sessionOpen
              /\ lifecycle' = lifecycle
              /\ scoped' = scoped
        /\ sessionOpen' # sessionOpen =>
              /\ callVars' = callVars
              /\ \/ \E t \in LifecycleTasks :
                       /\ scoped[t].pc = "idle"
                       /\ scoped'[t].pc \in {"entering", "exiting"}
                 \/ /\ lifecycle'.op = "close"
                    /\ lifecycle'.was_open
                    /\ ~sessionOpen' ]_vars

\* C17 witness: a call ran from entry to a transport fault on an open
\* session, after the client was entered, and the session is still open.
C17_Witness ==
    \E c \in SessionCalls :
        /\ pc[c] = "done"
        /\ resp[c].kind = "fault"
        /\ lifecycle.op = "enter"
        /\ lifecycle.raised = None
        /\ \A t \in LifecycleTasks : scoped[t].pc = "idle"
        /\ sessionOpen

(***************************************************************************)
(* Creation of the client class, checked under SpecClass.                  *)
(***************************************************************************)
HooksOf(k) == {i \in 1..Len(classHooks) : classHooks[i].creation = k}

\* C18: a creation of a client class emits 'creating-client-class' exactly
\* once; what the observers are handed holds every generated method and the
\* mapping _PY_TO_OP_NAME and the one base AsyncBaseClient; the type is built
\* from the attributes and the bases as the observers left them; a creation
\* that has not emitted has no type, and a type that does not exist has no
\* instance.
C18_HookOncePerClassBeforeType ==
    \A k \in ClassCreations :
        /\ Cardinality(HooksOf(k)) = (IF clientClass[k] = None THEN 0 ELSE 1)
        /\ instances[k] => clientClass[k] # None
        /\ \A i \in HooksOf(k) :
              LET h == classHooks[i]
                  m == CHOOSE m \in ServiceModels :
                          m.service_name = h.event[2]
              IN /\ h.event[1] = "creating-client-class"
                 /\ clientClass[k].name = m.module_name
                 /\ PyNames(m) \subseteq DOMAIN h.class_attributes
                 /\ "_PY_TO_OP_NAME" \in DOMAIN h.class_attributes
                 /\ h.class_attributes["_PY_TO_OP_NAME"] =
                        CreateNameMapping(m)
                 /\ h.base_classes = <<"AsyncBaseClient">>
                 /\ clientClass[k].attributes = h.attributes_left
                 /\ clientClass[k].bases = h.bases_left
                 /\ "_PY_TO_OP_NAME" \in DOMAIN clientClass[k].attributes

\* C18 witness: one class was built with a method an observer injected and
\* another with a base an observer added, and the first has an instance.
C18_Witness ==
    \E k, j \in ClassCreations :
        /\ clientClass[k] # None /\ clientClass[j] # None
        /\ "upload_file" \in DOMAIN clientClass[k].attributes
        /\ clientClass[j].bases = <<"Mixin", "AsyncBaseClient">>
        /\ instances[k]

(***************************************************************************)
(* The config in the bundle of _get_client_args, checked under             *)
(* SpecFactory.                                                            *)
(***************************************************************************)
DefaultConnectorArgs ==
    PyDict(<<[key |-> "keepalive_timeout", value |-> PyInt(KeepaliveDefault)]>>)

\* The s3 section of the file configuration, None if there is none or it is
\* not a mapping.
FileS3 ==
    LET sc == factoryGiven.scoped_config IN
    IF sc = None THEN None
    ELSE IF "s3" \notin DOMAIN sc.map THEN None
    ELSE IF sc.map.s3.type # "dict" THEN None
    ELSE sc.map.s3

\* C20 as stated: the config of the bundle is built only from the region,
\* the signature version, the user agent and, with an explicit config, its
\* two timeouts, so every other option of it, the s3 configuration among
\* them, is unset, and its connector options are keepalive_timeout = 12
\* alone.
C20_OnlyResolvedValuesAndTimeouts ==
    factoryGiven # Unset =>
        /\ clientArgs.client_config.connector_args = DefaultConnectorArgs
        /\ Attr(clientArgs.client_config, "s3") = None
        /\ Attr(clientArgs.client_config, "parameter_validation") =
               PyBool(TRUE)

\* C20 amended: the config of the bundle is built from the resolved region
\* and signature version, the effective user agent, the s3 configuration
\* (that of the file configuration overlaid with that of the explicit
\* config, None if neither has one) and, with an explicit config, its two
\* timeouts; nothing else of the explicit config is carried over, and the
\* connector options are keepalive_timeout = 12 alone whatever the explicit
\* config carried.
C20_ResolvedValuesTimeoutsAndS3 ==
    factoryGiven # Unset =>
        LET cc == factoryGiven.client_config
            new == clientArgs.client_config
            opts == new.user_provided_options
        IN /\ new.connector_args = DefaultConnectorArgs
           /\ DOMAIN opts =
                 {"region_name", "signature_version", "user_agent", "s3"}
                 \cup (IF cc = None THEN {}
                       ELSE {"connect_timeout", "read_timeout"})
           /\ opts.region_name =
                 PyStr(factoryGiven.endpoint_config.region_name)
           /\ opts.signature_version =
                 PyStr(factoryGiven.endpoint_config.signature_version)
           /\ opts.user_agent = PyStr(UserAgent(DefaultUserAgent, cc))
           /\ cc # None =>
                 /\ opts.connect_timeout = Attr(cc, "connect_timeout")
                 /\ opts.read_timeout = Attr(cc, "read_timeout")
           /\ IF cc = None \/ Attr(cc, "s3") = None
              THEN opts.s3 = FileS3
              ELSE /\ opts.s3.type = "dict"
                   /\ DOMAIN opts.s3.map =
                         DOMAIN Attr(cc, "s3").map
                         \cup (IF FileS3 = None THEN {}
                               ELSE DOMAIN FileS3.map)
                   /\ \A k \in DOMAIN opts.s3.map :
                         opts.s3.map[k] =
                            (IF k \in DOMAIN Attr(cc, "s3").map
                             THEN Attr(cc, "s3").map[k]
                             ELSE FileS3.map[k])
           /\ Attr(new, "parameter_validation") = PyBool(TRUE)

\* C20 witness: the explicit config carried limit = 10, parameter
\* validation off and an s3 configuration; the bundle's config has the
\* default connector options and the s3 configuration.
C20_Witness ==
    /\ factoryGiven # Unset
    /\ factoryGiven.client_config # None
    /\ \E i \in 1..Len(factoryGiven.client_config.connector_args.items) :
           factoryGiven.client_config.connector_args.items[i].key = "limit"
    /\ Attr(factoryGiven.client_config, "parameter_validation") =
           PyBool(FALSE)
    /\ Attr(factoryGiven.client_config, "s3") # None
    /\ clientArgs.client_config.connector_args = DefaultConnectorArgs
    /\ Attr(clientArgs.client_config, "s3") =
           Attr(factoryGiven.client_config, "s3")

====
